---- MODULE Spec2Model ----
(***************************************************************************)
(* A model of the Airthings polling client (siku2/hass-airthings):         *)
(*   - AuthManager (airthings/auth.py in both API variants): the cached    *)
(*     TokenDetails, the asyncio.Lock around check-and-renew, the          *)
(*     login_details setter;                                               *)
(*   - AirthingsAPI (custom_components/airthings/airthings/api.py): the    *)
(*     __states registry, the serial-number loop, the state-update loop,   *)
(*     start_auto_update.                                                  *)
(* asyncio is cooperative: a coroutine runs without interruption from one  *)
(* suspension point (a lock that is taken, a network call, a sleep) to the *)
(* next, so every action below is one such uninterrupted stretch.          *)
(***************************************************************************)
EXTENDS Integers, Sequences, FiniteSets, TLC

\* ------------------------------------------------------------ bounds
NumCallers == 2
NumIdents == 2
MaxTime == 2
MaxExpiresIn == 2
NumSerials == 2
MaxStarts == 2
NumTopics == 2
NumHandlers == 2
NumArgs == 2
MaxListeners == 2

Callers == 1..NumCallers
Idents == 1..NumIdents
ExpiresIns == 0..MaxExpiresIn
Serials == 1..NumSerials
Tasks == 1..(2 * MaxStarts)
Topics == 1..NumTopics
Handlers == 1..NumHandlers
Args == 1..NumArgs
Raised == {"none", "Exception", "BaseException"}

VARIABLES
    \* ---- AuthManager
    variant,     \* which auth.py: "login_refresh" (custom_components) or "password" (airthings)
    token,       \* AuthManager._token (NoToken for None)
    login,       \* AuthManager._login (the identity)
    locked,      \* AuthManager._lock is held
    waiters,     \* the lock's FIFO of waiting tasks
    now,         \* datetime.now()
    pc,          \* per task: where the coroutine stands
    op,          \* per task: the method it called
    req,         \* per task: the auth request it sent (kept after the response)
    result,      \* per task: the access token get_access_token returned
    \* ---- history, read only by the properties
    batch,       \* the current batch of concurrent get_access_token calls
    outside,     \* something other than the batch's calls touched the AuthManager
    upset,       \* a request of the batch failed or its credential expired
    fresh        \* login_details was replaced and no get_access_token has started since

VARIABLES
    \* ---- AirthingsAPI: the registry and the two polling loops
    states,        \* AirthingsAPI.__states: the serial numbers it maps
    statesLocked,  \* AirthingsAPI.__states_lock is held
    snPc,          \* __update_serial_numbers_loop: "sleep" (between cycles), "list", "device", "cancelled"
    sns_now,       \* __update_serial_numbers_once: local sns_now
    sns_before,    \* local sns_before
    added_sns,     \* local added_sns: what `for sn in added_sns` has yet to visit
    snCur,         \* the serial number whose DeviceState.get is in flight (0: none)
    stPc,          \* __update_states_loop: "sleep" (between cycles), "update", "cancelled"
    stLen,         \* the dict's size when `for state in self.__states.values()` began
    stSeen,        \* the serial numbers that loop has visited
    stCur,         \* the serial number whose DeviceState.update is in flight (0: none)
    \* ---- history, read only by the properties
    emitted,       \* events published by the latest diff of the serial-number loop
    stEmitted,     \* `updated` events published by the current state-update cycle
    snLast,        \* how the latest serial-number cycle ended
    stLast,        \* how the latest state-update cycle ended
    lastGood,      \* what the latest successfully completed serial-number cycle fetched
    again,         \* the latest cycle completed, right after a completed cycle that fetched the same
    \* ---- the dispatch tasks the serial-number loop has created
    ready,         \* the event loop's queue of tasks created and not yet started, as events
    started,       \* history: the dispatches of the latest publishing step that have started, in order
    announced,     \* history: the registry entries for which device_added has been published
    kept           \* history: the entries in the registry ever since the state-update cycle began

VARIABLES
    \* ---- EventSystem, and one publish (a dispatch or dispatch_async call)
    topics,        \* EventSystem.__topics: per topic the list of callbacks
    dPc,           \* the publish: "none", "created" (task not yet run), "gather", "done"
    dTopic,        \* its topic (0: none)
    dArg,          \* the argument published (0: none)
    atCallLen,     \* history: how long the topic's list was when the publish was called
    children,      \* the __dispatch_to coroutines handed to gather
    calls,         \* history: the handler invocations `f(*args)` of the publish, in order
    dRaised,       \* an exception came out of `dispatch`
    dHow,          \* how the publish was made: "none", "await" (dispatch), "task" (dispatch_async)
    pubDone        \* the publisher has run on to the end of its own work

VARIABLES
    \* ---- a task that calls AirthingsAPI.get_state from outside the loops
    statesWaiters, \* the tasks waiting for __states_lock, in order: "reader", "loop"
    rPc,           \* the caller: "idle", "waiting" (for the lock), "update", "fetch"
    rSn,           \* the serial number it asks for (0: none)
    rPartial       \* history: it has read the registry with a cycle's changes half applied

VARIABLES
    \* ---- one AirthingsAPI._request / WebAPI._request call and its response
    rqPc,          \* "idle", "auth" (awaiting get_access_token), "sent", "done"
    rqSends,       \* how often the call has sent its request
    rqResponse,    \* the response it got
    rqOutcome      \* what it returned or raised

VARIABLES
    \* ---- the _request calls: task c's get_access_token call is made by _request
    authz,         \* per task: the Authorization header its request went out with
    owed,          \* history: the credential was absent or expired when _request started
    seen           \* history: the cached access token when _request started

VARIABLES
    \* ---- the two locks together: tasks that use __states_lock and AuthManager._lock
    lkPc,          \* per task: "idle", "regwait", "tokwait", "auth" (renewal in flight), "http"
    lkOp,          \* per task: "none", "get_state" (new device), "request", "force"
    lkReg,         \* the task that holds __states_lock (0: none)
    lkRegQ,        \* the tasks waiting for __states_lock, in order
    lkTok,         \* the task that holds AuthManager._lock (0: none)
    lkTokQ,        \* the tasks waiting for AuthManager._lock, in order
    lkFresh        \* a credential is cached and has not expired

VARIABLES
    \* ---- AirthingsAPI.start_auto_update and its tasks
    update_tasks,  \* AirthingsAPI.__update_tasks: two task ids (0 for None)
    taskState,     \* per task id: "none" (not created), "cycle", "sleep", "done"
    startResult,   \* what the latest start_auto_update call did
    \* ---- async_setup_entry
    setupPc,       \* "idle", "login" (awaiting AirthingsAPI.login), "done"
    setupResult,   \* what it returned or raised: "none", "True", "False", or an exception
    stored,        \* hass.data[DOMAIN][KEY_API] holds the API object
    \* ---- the sensor platform's async_setup_entry, forwarded by async_setup_entry
    platPc,        \* "none", "scheduled" (job added), "listening" (listener added), "done"
    setupLoop,     \* history: the serial-number loop task async_setup_entry created (0: none)
    heard          \* history: that loop's first device_added: "none", "heard", "lost"

headerVars == <<authz, owed, seen>>

authVars == <<variant, token, login, locked, waiters, now, pc, op, req, result,
              batch, outside, upset, fresh, headerVars>>

queueVars == <<ready, started, announced, kept>>

apiVars == <<states, statesLocked, snPc, sns_now, sns_before, added_sns, snCur,
             stPc, stLen, stSeen, stCur, emitted, stEmitted, snLast, stLast, lastGood,
             again, queueVars>>

platformVars == <<platPc, setupLoop, heard>>

setupVars == <<setupPc, setupResult, stored, platformVars>>

taskVars == <<update_tasks, taskState, startResult, setupVars>>

eventVars == <<topics, dPc, dTopic, dArg, atCallLen, children, calls, dRaised,
               dHow, pubDone>>

readerVars == <<statesWaiters, rPc, rSn, rPartial>>

requestVars == <<rqPc, rqSends, rqResponse, rqOutcome>>

lockVars == <<lkPc, lkOp, lkReg, lkRegQ, lkTok, lkTokQ, lkFresh>>

vars == <<authVars, apiVars, taskVars, eventVars, readerVars, requestVars, lockVars>>

\* ------------------------------------------------------------ TokenDetails

\* AuthManager._token = None
NoToken == [access |-> -1, ident |-> 0, expires_in |-> 0, expires_at |-> 0]

NoRequest == [kind |-> "none", ident |-> 0, tok |-> NoToken]

\* TokenDetails.__post_init__: expires_at = now() + expires_in, computed once.
\* The access token of the credential that task c's request produced is c.
TokenDetails(c, ident, expires_in) ==
    [access |-> c, ident |-> ident, expires_in |-> expires_in,
     expires_at |-> now + expires_in]

\* TokenDetails.expired
MutExpiredStrict(t) == now > t.expires_at
Expired(t) == now >= t.expires_at

\* AuthManager._should_renew_token
MutShouldRenewAlways == TRUE
MutShouldRenewAbsentOnly == token = NoToken
MutShouldRenewExpiredOnly == token # NoToken /\ Expired(token)
ShouldRenewToken == token = NoToken \/ Expired(token)

\* ------------------------------------------------------------ the lock

\* asyncio.Lock.acquire takes the lock at once only if it is neither held nor
\* waited for.
MutLockAlwaysFree == TRUE
LockFree == ~locked /\ waiters = <<>>

Active(c) == pc[c] \in {"waiting", "request"}

\* A batch (history): a get_access_token call that finds the lock free and
\* the credential absent or expired, and the get_access_token calls that start
\* while every call of the batch is still in progress.  All calls of a batch
\* are in progress at the same moment.
BatchOpen == batch # {} /\ \A m \in batch : Active(m)

BatchBusy == \E m \in batch : Active(m)

\* ------------------------------------------------------------ AuthManager

\* The request _force_renew_token sends.  custom_components: a login with
\* _login when _token is None, else a refresh with _token's refresh token;
\* airthings: always an auth request with _login.
MutRenewAlwaysLogin == [kind |-> "login", ident |-> login, tok |-> NoToken]
MutRenewLoginWhenExpired ==
    IF variant = "password" \/ token = NoToken \/ Expired(token)
    THEN [kind |-> "login", ident |-> login, tok |-> NoToken]
    ELSE [kind |-> "refresh", ident |-> token.ident, tok |-> token]
RenewRequest ==
    IF variant = "password" \/ token = NoToken
    THEN [kind |-> "login", ident |-> login, tok |-> NoToken]
    ELSE [kind |-> "refresh", ident |-> token.ident, tok |-> token]

\* The body of `async with self._lock:` for task c, entered with the lock
\* in hand: _maybe_renew_token returns at once when the credential is fresh
\* (get_token_details then returns self._token without suspending); otherwise,
\* and always for force_renew_token, the request goes out and the task
\* suspends holding the lock.
UnderLock(c, o) ==
    IF o = "get" /\ ~ShouldRenewToken
    THEN /\ pc' = [pc EXCEPT ![c] = "returned"]
         /\ result' = [result EXCEPT ![c] = token.access]
         /\ req' = req
         /\ locked' = FALSE
    ELSE /\ pc' = [pc EXCEPT ![c] = "request"]
         /\ req' = [req EXCEPT ![c] = RenewRequest]
         /\ result' = result
         /\ locked' = TRUE

\* A task calls get_access_token ("get") or force_renew_token ("force").
\* Tasks are numbered in the order in which they call.
Call(c, o) ==
    /\ pc[c] = "idle"
    /\ \A d \in Callers : d < c => pc[d] # "idle"
    /\ op' = [op EXCEPT ![c] = o]
    /\ fresh' = (fresh /\ o # "get")
    /\ IF o = "get" /\ LockFree /\ ShouldRenewToken
       THEN batch' = {c} /\ outside' = FALSE /\ upset' = FALSE
       ELSE /\ batch' = IF o = "get" /\ BatchOpen THEN batch \cup {c} ELSE batch
            /\ outside' = (outside \/ (o = "force" /\ BatchBusy))
            /\ upset' = upset
    /\ IF LockFree
       THEN UnderLock(c, o) /\ waiters' = waiters
       ELSE /\ pc' = [pc EXCEPT ![c] = "waiting"]
            /\ waiters' = Append(waiters, c)
            /\ UNCHANGED <<req, result, locked>>
    /\ UNCHANGED <<variant, token, login, now>>
    /\ UNCHANGED <<apiVars, taskVars, eventVars, readerVars, requestVars, lockVars>>

\* asyncio.Lock wakes the first waiter once the lock is released.
Resume(c) ==
    /\ pc[c] = "waiting"
    /\ ~locked
    /\ waiters # <<>> /\ Head(waiters) = c
    /\ waiters' = Tail(waiters)
    /\ UnderLock(c, op[c])
    /\ UNCHANGED <<variant, token, login, now, op, batch, outside, upset, fresh>>
    /\ UNCHANGED <<apiVars, taskVars, eventVars, readerVars, requestVars, lockVars>>

\* The cached credential after the response to task c's request.
MutCredentialClearedOnFailure(c, ok, expires_in) ==
    IF ok THEN TokenDetails(c, req[c].ident, expires_in) ELSE NoToken
CredentialAfter(c, ok, expires_in) ==
    IF ok THEN TokenDetails(c, req[c].ident, expires_in) ELSE token

\* The response arrives: 200 with a payload (self._token = TokenDetails...)
\* or another status (APIError raised through the `async with`).  Either way
\* the lock is released, and the coroutine runs on to its return or raise.
MutRespondKeepsLockOnFailure(c, ok, expires_in) ==
    /\ pc[c] = "request"
    /\ token' = CredentialAfter(c, ok, expires_in)
    /\ pc' = [pc EXCEPT ![c] = IF ok THEN "returned" ELSE "raised"]
    /\ result' = [result EXCEPT ![c] =
                    IF ok /\ op[c] = "get" THEN token'.access ELSE NoToken.access]
    /\ locked' = ~ok
    /\ upset' = (upset \/ (BatchBusy /\ (~ok \/ expires_in = 0)))
    /\ UNCHANGED <<variant, login, waiters, now, op, req, batch, outside, fresh>>
    /\ UNCHANGED <<apiVars, taskVars, eventVars, readerVars, requestVars, lockVars>>
Respond(c, ok, expires_in) ==
    /\ pc[c] = "request"
    /\ token' = CredentialAfter(c, ok, expires_in)
    /\ pc' = [pc EXCEPT ![c] = IF ok THEN "returned" ELSE "raised"]
    /\ result' = [result EXCEPT ![c] =
                    IF ok /\ op[c] = "get" THEN token'.access ELSE NoToken.access]
    /\ locked' = FALSE
    /\ upset' = (upset \/ (BatchBusy /\ (~ok \/ expires_in = 0)))
    /\ UNCHANGED <<variant, login, waiters, now, op, req, batch, outside, fresh>>
    /\ UNCHANGED <<apiVars, taskVars, eventVars, readerVars, requestVars, lockVars>>

RespondOk(c) == \E e \in ExpiresIns : Respond(c, TRUE, e)

RespondFail(c) == Respond(c, FALSE, 0)

\* login_details setter: synchronous, takes no lock.
SetLoginDetails(v) ==
    /\ v # login
    /\ token' = NoToken
    /\ login' = v
    /\ outside' = (outside \/ BatchBusy)
    /\ fresh' = TRUE
    /\ UNCHANGED <<variant, locked, waiters, now, pc, op, req, result, batch, upset>>
    /\ UNCHANGED <<apiVars, taskVars, eventVars, readerVars, requestVars, lockVars>>

\* The wall clock advances.
Tick ==
    /\ now < MaxTime
    /\ now' = now + 1
    /\ upset' = (upset \/ (BatchBusy /\ token # NoToken /\ ~Expired(token)
                                 /\ now + 1 >= token.expires_at))
    /\ UNCHANGED <<variant, token, login, locked, waiters, pc, op, req, result,
                   batch, outside, fresh>>
    /\ UNCHANGED <<apiVars, taskVars, eventVars, readerVars, requestVars, lockVars>>

InitAuth ==
    /\ variant \in {"login_refresh", "password"}
    /\ token = NoToken
    /\ login = 1
    /\ locked = FALSE
    /\ waiters = <<>>
    /\ now = 0
    /\ pc = [c \in Callers |-> "idle"]
    /\ op = [c \in Callers |-> "none"]
    /\ req = [c \in Callers |-> NoRequest]
    /\ result = [c \in Callers |-> NoToken.access]
    /\ batch = {}
    /\ outside = FALSE
    /\ upset = FALSE
    /\ fresh = FALSE

InitHeaders ==
    /\ authz = [c \in Callers |-> NoToken.access]
    /\ owed = [c \in Callers |-> FALSE]
    /\ seen = [c \in Callers |-> NoToken.access]

NextAuth ==
    \/ \E c \in Callers : Call(c, "get") /\ UNCHANGED headerVars
    \/ \E c \in Callers : Call(c, "force") /\ UNCHANGED headerVars
    \/ \E c \in Callers : Resume(c) /\ UNCHANGED headerVars
    \/ \E c \in Callers : RespondOk(c) /\ UNCHANGED headerVars
    \/ \E c \in Callers : RespondFail(c) /\ UNCHANGED headerVars
    \/ \E v \in Idents : SetLoginDetails(v) /\ UNCHANGED headerVars
    \/ Tick /\ UNCHANGED headerVars

\* Every call has ended: each caller has its token or its exception.  The
\* tasks make their next calls some time; no batch is in progress then.
CallAgain ==
    /\ \A c \in Callers : pc[c] \in {"returned", "raised"}
    /\ pc' = [c \in Callers |-> "idle"]
    /\ op' = [c \in Callers |-> "none"]
    /\ req' = [c \in Callers |-> NoRequest]
    /\ result' = [c \in Callers |-> NoToken.access]
    /\ batch' = {}
    /\ outside' = FALSE
    /\ upset' = FALSE
    /\ UNCHANGED <<variant, token, login, locked, waiters, now, fresh, headerVars>>
    /\ UNCHANGED <<apiVars, taskVars, eventVars, readerVars, requestVars, lockVars>>

\* The AuthManager used again and again: calls, their answers, the setter,
\* and tasks that call once more after all their calls have ended.  The clock
\* stands still: a credential issued with expires_in = 0 is expired, any
\* other is not.
NextRenewals ==
    \/ \E c \in Callers : Call(c, "get") /\ UNCHANGED headerVars
    \/ \E c \in Callers : Call(c, "force") /\ UNCHANGED headerVars
    \/ \E c \in Callers : Resume(c) /\ UNCHANGED headerVars
    \/ \E c \in Callers : RespondOk(c) /\ UNCHANGED headerVars
    \/ \E c \in Callers : RespondFail(c) /\ UNCHANGED headerVars
    \/ \E v \in Idents : SetLoginDetails(v) /\ UNCHANGED headerVars
    \/ CallAgain

\* ------------------------------------------------------------ _request

\* _request is called by task c: it runs up to its first suspension inside
\* `await self.auth.get_access_token()`.
Request(c) ==
    /\ Call(c, "get")
    /\ owed' = [owed EXCEPT ![c] = ShouldRenewToken]
    /\ seen' = [seen EXCEPT ![c] = token.access]
    /\ UNCHANGED authz

\* The value of headers["Authorization"]: what the awaited get_access_token
\* call returned.
MutAuthorizationFromStart(c) == seen[c]
Authorization(c) == result[c]

\* get_access_token has returned to _request: the header is set and
\* session.request sends the request.
HttpSend(c) ==
    /\ pc[c] = "returned" /\ op[c] = "get"
    /\ authz' = [authz EXCEPT ![c] = Authorization(c)]
    /\ pc' = [pc EXCEPT ![c] = "sent"]
    /\ UNCHANGED <<variant, token, login, locked, waiters, now, op, req, result,
                   batch, outside, upset, fresh, owed, seen>>
    /\ UNCHANGED <<apiVars, taskVars, eventVars, readerVars, requestVars, lockVars>>

\* The response arrives and _request returns or raises.
HttpDone(c) ==
    /\ pc[c] = "sent"
    /\ pc' = [pc EXCEPT ![c] = "done"]
    /\ UNCHANGED <<variant, token, login, locked, waiters, now, op, req, result,
                   batch, outside, upset, fresh, headerVars>>
    /\ UNCHANGED <<apiVars, taskVars, eventVars, readerVars, requestVars, lockVars>>

\* _request calls, with force_renew_token calls (AirthingsAPI.login) and the
\* clock beside them; the login details stay as constructed.
NextRequest ==
    \/ \E c \in Callers : Request(c)
    \/ \E c \in Callers : Call(c, "force") /\ UNCHANGED headerVars
    \/ \E c \in Callers : Resume(c) /\ UNCHANGED headerVars
    \/ \E c \in Callers : RespondOk(c) /\ UNCHANGED headerVars
    \/ \E c \in Callers : RespondFail(c) /\ UNCHANGED headerVars
    \/ \E c \in Callers : HttpSend(c)
    \/ \E c \in Callers : HttpDone(c)
    \/ Tick /\ UNCHANGED headerVars

\* ------------------------------------------------------------ AirthingsAPI

\* One publish: dispatch_async(kind, ...) for the device with serial number sn.
Ev(kind, sn) == [kind |-> kind, sn |-> sn]

\* The orders in which `for sn in S` may visit a Python set.
Orders(S) ==
    {o \in [1..Cardinality(S) -> S] : \A i, j \in 1..Cardinality(S) : o[i] = o[j] => i = j}

\* `for sn in removed_sns`: self.dispatch_async("device_removed", state), then
\* state.dispatch_async("removed"), device after device.
MutRemovedFirst(o) ==
    [i \in 1..(2 * Len(o)) |->
        IF i % 2 = 1 THEN Ev("removed", o[(i + 1) \div 2])
        ELSE Ev("device_removed", o[i \div 2])]
MutRemovedNeverPublished(o) == [i \in 1..Len(o) |-> Ev("device_removed", o[i])]
RemovalEvents(o) ==
    [i \in 1..(2 * Len(o)) |->
        IF i % 2 = 1 THEN Ev("device_removed", o[(i + 1) \div 2])
        ELSE Ev("removed", o[i \div 2])]

\* Where the loop goes when its cycle raises: `except Exception` logs, and the
\* loop goes on to `await asyncio.sleep(interval_s)`.
MutLoopEndsOnFailure == "crashed"
AfterFailure == "sleep"

\* The locals of __update_serial_numbers_once are gone when it returns or raises.
SnLocalsGone ==
    /\ sns_now' = {}
    /\ sns_before' = {}
    /\ added_sns' = {}
    /\ snCur' = 0

\* The rest of __update_serial_numbers_once after `for sn in added_sns`, with
\* the registry reg and the events evs so far: every removed serial number is
\* popped under the lock and its two events are published; then the cycle is over.
SnFinish(reg, evs, fetched, before) ==
    /\ \E o \in Orders(before \ fetched) :
          emitted' = evs \o RemovalEvents(o)
    /\ states' = reg \ (before \ fetched)
    /\ snPc' = "sleep"
    /\ snLast' = "ok"
    /\ lastGood' = fetched
    /\ again' = (snLast = "ok" /\ fetched = lastGood)
    /\ SnLocalsGone

\* get_state(sn) for a serial number of added_sns, the lock being free: the
\* lock is taken; the key is missing and DeviceState.get's request goes out
\* with the lock held, unless another get_state caller has stored the key
\* since added_sns was computed: then the lock is released and v.update()'s
\* request goes out.
SnGetState(reg, evs, todo) ==
    /\ \E sn \in todo :
          /\ snCur' = sn
          /\ added_sns' = todo \ {sn}
          /\ statesLocked' = (sn \notin reg)
          /\ snPc' = IF sn \in reg THEN "devupdate" ELSE "device"
    /\ states' = reg
    /\ emitted' = evs
    /\ UNCHANGED <<snLast, lastGood, again>>

\* asyncio.sleep(interval_s) is over: the next cycle starts with the request
\* of get_serial_numbers.
SnWake ==
    /\ snPc = "sleep"
    /\ snPc' = "list"
    /\ UNCHANGED <<states, statesLocked, sns_now, sns_before, added_sns, snCur,
                   emitted, snLast, lastGood, again>>
    /\ UNCHANGED <<stPc, stLen, stSeen, stCur, stEmitted, stLast>>
    /\ UNCHANGED <<authVars, taskVars, eventVars, readerVars, requestVars, lockVars>>

\* sns_before = set(self.__states.keys())
MutSnsBeforeEmpty == {}
MutSnsBeforeLastFetched == lastGood
SnsBefore == states

\* __states_lock can be taken without waiting (asyncio.Lock.acquire).
MutStatesLockAlwaysFree == TRUE
StatesLockFree == ~statesLocked /\ statesWaiters = <<>>

\* The cycle goes on after a suspension, with the registry reg, the events evs
\* and todo still to add: when nothing is left to add or remove it returns;
\* else it needs __states_lock, for the next get_state or for the removals,
\* and queues for it when another task holds it or waits for it (mine: the
\* loop itself holds the lock and releases it first).
SnContinue(reg, evs, fetched, before, todo, mine) ==
    IF \/ todo = {} /\ before \ fetched = {}
       \/ IF mine THEN statesWaiters = <<>> ELSE StatesLockFree
    THEN /\ IF todo = {}
            THEN /\ SnFinish(reg, evs, fetched, before)
                 /\ statesLocked' = IF mine THEN FALSE ELSE statesLocked
            ELSE /\ sns_now' = fetched
                 /\ sns_before' = before
                 /\ SnGetState(reg, evs, todo)
         /\ UNCHANGED statesWaiters
    ELSE /\ snPc' = "lockwait"
         /\ statesWaiters' = Append(statesWaiters, "loop")
         /\ statesLocked' = IF mine THEN FALSE ELSE statesLocked
         /\ states' = reg
         /\ emitted' = evs
         /\ sns_now' = fetched
         /\ sns_before' = before
         /\ added_sns' = todo
         /\ snCur' = 0
         /\ UNCHANGED <<snLast, lastGood, again>>

\* get_serial_numbers returns: sns_now, sns_before and added_sns are computed
\* and the diff runs up to its first suspension.
SnListOk(fetched) ==
    /\ snPc = "list"
    /\ SnContinue(states, <<>>, fetched, SnsBefore, fetched \ SnsBefore, FALSE)
    /\ UNCHANGED <<stPc, stLen, stSeen, stCur, stEmitted, stLast>>
    /\ UNCHANGED <<rPc, rSn, rPartial>>
    /\ UNCHANGED <<authVars, taskVars, eventVars, requestVars, lockVars>>

\* get_serial_numbers raises (transport, auth or API error): nothing of the
\* cycle has run yet.
SnListFail ==
    /\ snPc = "list"
    /\ snPc' = AfterFailure
    /\ snLast' = "list_failed"
    /\ again' = FALSE
    /\ UNCHANGED <<states, statesLocked, sns_now, sns_before, added_sns, snCur,
                   emitted, lastGood>>
    /\ UNCHANGED <<stPc, stLen, stSeen, stCur, stEmitted, stLast>>
    /\ UNCHANGED <<authVars, taskVars, eventVars, readerVars, requestVars, lockVars>>

\* DeviceState.get returns: the new state is stored, the lock released,
\* device_added published; the loop goes on to the next added serial number
\* or to the removals.
SnDeviceOk ==
    /\ snPc = "device"
    /\ SnContinue(states \cup {snCur}, Append(emitted, Ev("device_added", snCur)),
                  sns_now, sns_before, added_sns, TRUE)
    /\ UNCHANGED <<stPc, stLen, stSeen, stCur, stEmitted, stLast>>
    /\ UNCHANGED <<rPc, rSn, rPartial>>
    /\ UNCHANGED <<authVars, taskVars, eventVars, requestVars, lockVars>>

\* DeviceState.get raises: the lock is released and the cycle is abandoned
\* where it stands.
SnDeviceFail ==
    /\ snPc = "device"
    /\ snPc' = AfterFailure
    /\ snLast' = "device_failed"
    /\ again' = FALSE
    /\ statesLocked' = FALSE
    /\ SnLocalsGone
    /\ UNCHANGED <<states, emitted, lastGood>>
    /\ UNCHANGED <<stPc, stLen, stSeen, stCur, stEmitted, stLast>>
    /\ UNCHANGED <<authVars, taskVars, eventVars, readerVars, requestVars, lockVars>>

\* The task is cancelled at a suspension point and ends.
SnCancel ==
    /\ snPc \in {"sleep", "list", "device", "devupdate", "lockwait"}
    /\ snPc' = "cancelled"
    /\ statesLocked' = IF snPc = "device" THEN FALSE ELSE statesLocked
    /\ statesWaiters' = SelectSeq(statesWaiters, LAMBDA w : w # "loop")
    /\ SnLocalsGone
    /\ UNCHANGED <<states, emitted, snLast, lastGood, again>>
    /\ UNCHANGED <<stPc, stLen, stSeen, stCur, stEmitted, stLast>>
    /\ UNCHANGED <<rPc, rSn, rPartial>>
    /\ UNCHANGED <<authVars, taskVars, eventVars, requestVars, lockVars>>

\* The loop gets __states_lock after waiting for it and goes on with the
\* next get_state or with the removals.
SnLockAcquired ==
    /\ snPc = "lockwait"
    /\ ~statesLocked
    /\ statesWaiters # <<>> /\ Head(statesWaiters) = "loop"
    /\ statesWaiters' = Tail(statesWaiters)
    /\ IF added_sns = {}
       THEN /\ SnFinish(states, emitted, sns_now, sns_before)
            /\ statesLocked' = FALSE
       ELSE /\ SnGetState(states, emitted, added_sns)
            /\ UNCHANGED <<sns_now, sns_before>>
    /\ UNCHANGED <<stPc, stLen, stSeen, stCur, stEmitted, stLast>>
    /\ UNCHANGED <<rPc, rSn, rPartial>>
    /\ UNCHANGED <<authVars, taskVars, eventVars, requestVars, lockVars>>

\* get_state's v.update() returns, for a key another caller had stored:
\* device_added is published all the same and the cycle goes on.
SnDeviceUpdateOk ==
    /\ snPc = "devupdate"
    /\ SnContinue(states, Append(emitted, Ev("device_added", snCur)),
                  sns_now, sns_before, added_sns, FALSE)
    /\ UNCHANGED <<stPc, stLen, stSeen, stCur, stEmitted, stLast>>
    /\ UNCHANGED <<rPc, rSn, rPartial>>
    /\ UNCHANGED <<authVars, taskVars, eventVars, requestVars, lockVars>>

\* get_state's v.update() raises: the cycle is abandoned where it stands.
SnDeviceUpdateFail ==
    /\ snPc = "devupdate"
    /\ snPc' = AfterFailure
    /\ snLast' = "device_failed"
    /\ again' = FALSE
    /\ SnLocalsGone
    /\ UNCHANGED <<states, statesLocked, emitted, lastGood>>
    /\ UNCHANGED <<stPc, stLen, stSeen, stCur, stEmitted, stLast>>
    /\ UNCHANGED <<authVars, taskVars, eventVars, readerVars, requestVars, lockVars>>

\* A cycle is under way and the registry holds an addition it has published
\* while more of its additions or its removals are still to come.
HalfApplied ==
    /\ snPc \in {"device", "devupdate", "lockwait"}
    /\ \E k \in DOMAIN emitted : emitted[k].kind = "device_added" /\ emitted[k].sn \in states
    /\ added_sns # {} \/ snCur # 0 \/ sns_before \ sns_now # {}

\* Everything of the loops but the registry and its lock.
loopVars == <<snPc, sns_now, sns_before, added_sns, snCur, stPc, stLen, stSeen, stCur,
              emitted, stEmitted, snLast, stLast, lastGood, again>>

\* get_state(sn) with __states_lock just taken: `v = self.__states[sn]` is
\* read; with the key present the lock is released and `await v.update()`
\* follows outside it; with the key missing DeviceState.get's request goes
\* out with the lock held.
ReaderUnderLock(sn) ==
    /\ rPc' = IF sn \in states THEN "update" ELSE "fetch"
    /\ statesLocked' = (sn \notin states)
    /\ rPartial' = (rPartial \/ HalfApplied)

\* A task outside the loops calls get_state(sn): it takes the lock if it is
\* free and queues for it otherwise.
ReaderCall(sn) ==
    /\ rPc = "idle"
    /\ IF StatesLockFree
       THEN /\ ReaderUnderLock(sn)
            /\ UNCHANGED statesWaiters
       ELSE /\ rPc' = "waiting"
            /\ statesWaiters' = Append(statesWaiters, "reader")
            /\ UNCHANGED <<rPartial, statesLocked>>
    /\ rSn' = sn
    /\ UNCHANGED <<states, loopVars>>
    /\ UNCHANGED <<authVars, taskVars, eventVars, requestVars, lockVars>>

\* The waiting caller gets the lock.
ReaderAcquire ==
    /\ rPc = "waiting"
    /\ ~statesLocked
    /\ statesWaiters # <<>> /\ Head(statesWaiters) = "reader"
    /\ statesWaiters' = Tail(statesWaiters)
    /\ ReaderUnderLock(rSn)
    /\ UNCHANGED <<rSn, states, loopVars>>
    /\ UNCHANGED <<authVars, taskVars, eventVars, requestVars, lockVars>>

\* v.update() returns or raises and get_state is over.
ReaderUpdateDone ==
    /\ rPc = "update"
    /\ rPc' = "idle"
    /\ rSn' = 0
    /\ UNCHANGED <<statesWaiters, rPartial>>
    /\ UNCHANGED <<authVars, apiVars, taskVars, eventVars, requestVars, lockVars>>

\* DeviceState.get returns to the outside caller (ok: the new state is stored)
\* or raises; the lock is released and get_state is over.
ReaderFetchDone(ok) ==
    /\ rPc = "fetch"
    /\ states' = IF ok THEN states \cup {rSn} ELSE states
    /\ statesLocked' = FALSE
    /\ rPc' = "idle"
    /\ rSn' = 0
    /\ UNCHANGED <<statesWaiters, rPartial, loopVars>>
    /\ UNCHANGED <<authVars, taskVars, eventVars, requestVars, lockVars>>

InitReader ==
    /\ statesWaiters = <<>>
    /\ rPc = "idle"
    /\ rSn = 0
    /\ rPartial = FALSE

NextReader ==
    \/ SnWake /\ UNCHANGED queueVars
    \/ \E fetched \in SUBSET Serials : SnListOk(fetched) /\ UNCHANGED queueVars
    \/ SnListFail /\ UNCHANGED queueVars
    \/ SnDeviceOk /\ UNCHANGED queueVars
    \/ SnDeviceFail /\ UNCHANGED queueVars
    \/ SnCancel /\ UNCHANGED queueVars
    \/ SnLockAcquired /\ UNCHANGED queueVars
    \/ SnDeviceUpdateOk /\ UNCHANGED queueVars
    \/ SnDeviceUpdateFail /\ UNCHANGED queueVars
    \/ \E sn \in Serials : ReaderCall(sn) /\ UNCHANGED queueVars
    \/ ReaderAcquire /\ UNCHANGED queueVars
    \/ ReaderUpdateDone /\ UNCHANGED queueVars
    \/ \E ok \in BOOLEAN : ReaderFetchDone(ok) /\ UNCHANGED queueVars

\* The locals of __update_states_once are gone when it returns or raises.
StLocalsGone ==
    /\ stLen' = 0
    /\ stSeen' = {}
    /\ stCur' = 0

\* asyncio.sleep(interval_s) is over: the next state-update cycle starts.
StWake ==
    /\ stPc = "sleep"
    /\ stEmitted' = <<>>
    /\ IF states = {}
       THEN /\ stPc' = "sleep"
            /\ stLast' = "ok"
            /\ StLocalsGone
       ELSE /\ stLen' = Cardinality(states)
            /\ \E sn \in states :
                 /\ stCur' = sn
                 /\ stSeen' = {sn}
            /\ stPc' = "update"
            /\ UNCHANGED stLast
    /\ UNCHANGED <<states, statesLocked, snPc, sns_now, sns_before, added_sns, snCur,
                   emitted, snLast, lastGood, again>>
    /\ UNCHANGED <<authVars, taskVars, eventVars, readerVars, requestVars, lockVars>>

\* DeviceState.update gets its sample: `updated` is published when the sample
\* is newer than _next_page_start (newer), not otherwise.  Then
\* `for state in self.__states.values()` takes its next element: the dict
\* iterator raises RuntimeError when the dict's size is no longer what it was
\* when the loop began; the order of the visits is left open.
StUpdateOk(newer) ==
    /\ stPc = "update"
    /\ stEmitted' = IF newer THEN Append(stEmitted, stCur) ELSE stEmitted
    /\ IF Cardinality(states) # stLen
       THEN /\ stPc' = AfterFailure
            /\ stLast' = "failed"
            /\ StLocalsGone
       ELSE IF states \ stSeen = {}
       THEN /\ stPc' = "sleep"
            /\ stLast' = "ok"
            /\ StLocalsGone
       ELSE /\ \E sn \in states \ stSeen :
                 /\ stCur' = sn
                 /\ stSeen' = stSeen \cup {sn}
            /\ stPc' = "update"
            /\ UNCHANGED <<stLen, stLast>>
    /\ UNCHANGED <<states, statesLocked, snPc, sns_now, sns_before, added_sns, snCur,
                   emitted, snLast, lastGood, again>>
    /\ UNCHANGED <<authVars, taskVars, eventVars, readerVars, requestVars, lockVars>>

\* DeviceState.update raises: the cycle is abandoned.
StUpdateFail ==
    /\ stPc = "update"
    /\ stPc' = AfterFailure
    /\ stLast' = "failed"
    /\ StLocalsGone
    /\ UNCHANGED stEmitted
    /\ UNCHANGED <<states, statesLocked, snPc, sns_now, sns_before, added_sns, snCur,
                   emitted, snLast, lastGood, again>>
    /\ UNCHANGED <<authVars, taskVars, eventVars, readerVars, requestVars, lockVars>>

\* The task is cancelled at a suspension point and ends.
StCancel ==
    /\ stPc \in {"sleep", "update"}
    /\ stPc' = "cancelled"
    /\ StLocalsGone
    /\ UNCHANGED <<stEmitted, stLast>>
    /\ UNCHANGED <<states, statesLocked, snPc, sns_now, sns_before, added_sns, snCur,
                   emitted, snLast, lastGood, again>>
    /\ UNCHANGED <<authVars, taskVars, eventVars, readerVars, requestVars, lockVars>>

\* AirthingsAPI.__init__, and start_auto_update has created both loop tasks.
InitApi ==
    /\ states = {}
    /\ statesLocked = FALSE
    /\ snPc = "sleep"
    /\ sns_now = {}
    /\ sns_before = {}
    /\ added_sns = {}
    /\ snCur = 0
    /\ stPc = "sleep"
    /\ stLen = 0
    /\ stSeen = {}
    /\ stCur = 0
    /\ emitted = <<>>
    /\ stEmitted = <<>>
    /\ snLast = "none"
    /\ stLast = "none"
    /\ lastGood = {}
    /\ again = FALSE
    /\ ready = <<>>
    /\ started = <<>>
    /\ announced = {}
    /\ kept = {}

NextApi ==
    \/ SnWake /\ UNCHANGED queueVars
    \/ \E fetched \in SUBSET Serials : SnListOk(fetched) /\ UNCHANGED queueVars
    \/ SnListFail /\ UNCHANGED queueVars
    \/ SnDeviceOk /\ UNCHANGED queueVars
    \/ SnDeviceFail /\ UNCHANGED queueVars
    \/ SnCancel /\ UNCHANGED queueVars
    \/ StWake /\ UNCHANGED queueVars
    \/ \E newer \in BOOLEAN : StUpdateOk(newer) /\ UNCHANGED queueVars
    \/ StUpdateFail /\ UNCHANGED queueVars
    \/ StCancel /\ UNCHANGED queueVars

\* ------------------------------------------------------------ the loop's dispatch tasks

\* What a step of the serial-number loop has published: the whole of emitted
\* when the step is the first of its diff, else what it has added to emitted.
Published ==
    IF snPc = "list" THEN emitted'
    ELSE SubSeq(emitted', Len(emitted) + 1, Len(emitted'))

\* The loop task is resumed from a suspension (a response, the timer): the
\* event loop, whose ready queue is first in first out, has started every
\* task created before.  Each dispatch_async of the step appends its task.
SnPublishes ==
    /\ ready = <<>>
    /\ ready' = Published
    /\ started' = IF Published = <<>> THEN started ELSE <<>>
    /\ UNCHANGED <<announced, kept>>

\* The event loop starts the task at the head of its queue: the body of
\* `dispatch` begins.
DispatchBegins ==
    /\ ready # <<>>
    /\ ready' = Tail(ready)
    /\ started' = Append(started, Head(ready))
    /\ UNCHANGED <<announced, kept>>
    /\ UNCHANGED <<states, statesLocked, snPc, sns_now, sns_before, added_sns, snCur,
                   stPc, stLen, stSeen, stCur, emitted, stEmitted, snLast, stLast,
                   lastGood, again>>
    /\ UNCHANGED <<authVars, taskVars, eventVars, readerVars, requestVars, lockVars>>

\* A step of the serial-number loop: the entries it publishes device_added
\* for are announced, for as long as they stay in the registry.
SnAnnounces ==
    /\ announced' =
          (announced \cup {sn \in Serials :
              \E k \in DOMAIN Published : Published[k] = Ev("device_added", sn)})
          \cap states'
    /\ UNCHANGED <<ready, started, kept>>

\* The serial-number loop beside a task that calls get_state, as in
\* NextReader, with the announcements recorded.
NextAnnounce ==
    \/ SnWake /\ SnAnnounces
    \/ \E fetched \in SUBSET Serials : SnListOk(fetched) /\ SnAnnounces
    \/ SnListFail /\ SnAnnounces
    \/ SnDeviceOk /\ SnAnnounces
    \/ SnDeviceFail /\ SnAnnounces
    \/ SnCancel /\ SnAnnounces
    \/ SnLockAcquired /\ SnAnnounces
    \/ SnDeviceUpdateOk /\ SnAnnounces
    \/ SnDeviceUpdateFail /\ SnAnnounces
    \/ \E sn \in Serials : ReaderCall(sn) /\ UNCHANGED queueVars
    \/ ReaderAcquire /\ UNCHANGED queueVars
    \/ ReaderUpdateDone /\ UNCHANGED queueVars
    \/ \E ok \in BOOLEAN : ReaderFetchDone(ok) /\ UNCHANGED queueVars

\* A step of either loop: kept is the registry when a state-update cycle
\* begins and loses what leaves the registry afterwards.
Keeps ==
    /\ kept' = IF stPc = "sleep" /\ stPc' = "update" THEN states ELSE kept \cap states'
    /\ UNCHANGED <<ready, started, announced>>

\* The two loops when every request of the state-update loop is answered (no
\* update raises) and no task is cancelled.
NextMutation ==
    \/ SnWake /\ Keeps
    \/ \E fetched \in SUBSET Serials : SnListOk(fetched) /\ Keeps
    \/ SnListFail /\ Keeps
    \/ SnDeviceOk /\ Keeps
    \/ SnDeviceFail /\ Keeps
    \/ StWake /\ Keeps
    \/ \E newer \in BOOLEAN : StUpdateOk(newer) /\ Keeps

\* The serial-number loop and the dispatch tasks it creates.
NextRemoval ==
    \/ SnWake /\ SnPublishes
    \/ \E fetched \in SUBSET Serials : SnListOk(fetched) /\ SnPublishes
    \/ SnListFail /\ SnPublishes
    \/ SnDeviceOk /\ SnPublishes
    \/ SnDeviceFail /\ SnPublishes
    \/ DispatchBegins

\* ------------------------------------------------------------ start_auto_update

\* Task 2k-1 runs __update_serial_numbers_loop and task 2k runs
\* __update_states_loop of the k-th pair start_auto_update creates.
SerialNumberTasks == {t \in Tasks : t % 2 = 1}
StateTasks == {t \in Tasks : t % 2 = 0}
Created == {t \in Tasks : taskState[t] # "none"}

\* not t.done()
Live(t) == taskState[t] \in {"cycle", "sleep"}

\* _auto_update_running: all(t is not None and not t.done() for t in __update_tasks)
AutoUpdateRunning == \A i \in 1..2 : update_tasks[i] # 0 /\ Live(update_tasks[i])

\* start_auto_update: raises RuntimeError when _auto_update_running, else
\* creates the two loop tasks and stores them.
StartAutoUpdate ==
    /\ IF AutoUpdateRunning
       THEN /\ startResult' = "raised"
            /\ UNCHANGED <<update_tasks, taskState>>
       ELSE /\ Cardinality(Created) < 2 * MaxStarts
            /\ LET sn == Cardinality(Created) + 1
                   st == Cardinality(Created) + 2
               IN /\ update_tasks' = <<sn, st>>
                  /\ taskState' = [taskState EXCEPT ![sn] = "cycle", ![st] = "cycle"]
            /\ startResult' = "started"
    /\ UNCHANGED <<authVars, apiVars, eventVars, readerVars, requestVars, lockVars>>

\* A loop's cycle returns or raises an Exception: the loop sleeps.
TaskCycleEnd(t) ==
    /\ taskState[t] = "cycle"
    /\ taskState' = [taskState EXCEPT ![t] = "sleep"]
    /\ UNCHANGED <<update_tasks, startResult>>
    /\ UNCHANGED <<authVars, apiVars, eventVars, readerVars, requestVars, lockVars>>

\* asyncio.sleep(interval_s) is over: the loop starts its next cycle.
TaskWake(t) ==
    /\ taskState[t] = "sleep"
    /\ taskState' = [taskState EXCEPT ![t] = "cycle"]
    /\ UNCHANGED <<update_tasks, startResult>>
    /\ UNCHANGED <<authVars, apiVars, eventVars, readerVars, requestVars, lockVars>>

\* A loop task ends: it is cancelled at a suspension point, or a BaseException
\* that `except Exception` does not catch leaves the loop.
TaskEnd(t) ==
    /\ Live(t)
    /\ taskState' = [taskState EXCEPT ![t] = "done"]
    /\ UNCHANGED <<update_tasks, startResult>>
    /\ UNCHANGED <<authVars, apiVars, eventVars, readerVars, requestVars, lockVars>>

\* __update_tasks = (None, None)
InitTasks ==
    /\ update_tasks = <<0, 0>>
    /\ taskState = [t \in Tasks |-> "none"]
    /\ startResult = "none"

NextTasks ==
    \/ StartAutoUpdate /\ UNCHANGED setupVars
    \/ \E t \in Tasks : TaskCycleEnd(t) /\ UNCHANGED setupVars
    \/ \E t \in Tasks : TaskWake(t) /\ UNCHANGED setupVars
    \/ \E t \in Tasks : TaskEnd(t) /\ UNCHANGED setupVars

\* ------------------------------------------------------------ async_setup_entry

\* The positional arguments async_setup_entry passes to start_auto_update
\* (timedelta(minutes=10)) and the ones start_auto_update requires
\* (update_interval, search_interval).
StartArgsGiven == 1
StartParamsRequired == 2

\* async_setup_entry is called: it awaits AirthingsAPI.login.
SetupEntry ==
    /\ setupPc = "idle"
    /\ setupPc' = "login"
    /\ UNCHANGED <<setupResult, stored>>
    /\ UNCHANGED <<update_tasks, taskState, startResult>>
    /\ UNCHANGED <<authVars, apiVars, eventVars, readerVars, requestVars, lockVars>>

\* AirthingsAPI.login raises exc: `except Exception` logs and returns False;
\* anything else leaves async_setup_entry.
SetupLoginFails(exc) ==
    /\ setupPc = "login"
    /\ exc # "none"
    /\ setupPc' = "done"
    /\ setupResult' = IF exc = "Exception" THEN "False" ELSE exc
    /\ UNCHANGED stored
    /\ UNCHANGED <<update_tasks, taskState, startResult>>
    /\ UNCHANGED <<authVars, apiVars, eventVars, readerVars, requestVars, lockVars>>

\* AirthingsAPI.login returns the API object: it is stored, the platforms are
\* forwarded, and start_auto_update is called; the call raises TypeError
\* before the body of start_auto_update runs when the arguments do not fit
\* its parameters.
SetupLoginOk ==
    /\ setupPc = "login"
    /\ setupPc' = "done"
    /\ stored' = TRUE
    /\ IF StartArgsGiven = StartParamsRequired
       THEN /\ StartAutoUpdate
            /\ setupResult' = IF startResult' = "raised" THEN "RuntimeError" ELSE "True"
       ELSE /\ setupResult' = "TypeError"
            /\ UNCHANGED <<update_tasks, taskState, startResult>>
            /\ UNCHANGED <<authVars, apiVars, eventVars, readerVars, requestVars, lockVars>>

InitSetup ==
    /\ setupPc = "idle"
    /\ setupResult = "none"
    /\ stored = FALSE

InitPlatform ==
    /\ platPc = "none"
    /\ setupLoop = 0
    /\ heard = "none"

\* async_setup_entry after a successful login: between storing the API object
\* and calling start_auto_update it adds the job that forwards the entry to
\* the sensor platform; the job runs later.  The serial-number loop it
\* creates, if start_auto_update creates one, is noted.
StartupLoginOk ==
    /\ SetupLoginOk
    /\ platPc' = "scheduled"
    /\ setupLoop' = IF StartArgsGiven = StartParamsRequired /\ startResult' = "started"
                    THEN update_tasks'[1] ELSE 0
    /\ UNCHANGED heard

\* The forwarded job reaches the sensor platform's async_setup_entry, which
\* reads the stored API object and adds on_device_added to "device_added",
\* then suspends in get_tracked_devices.
PlatformSetup ==
    /\ platPc = "scheduled"
    /\ platPc' = "listening"
    /\ UNCHANGED <<setupLoop, heard>>
    /\ UNCHANGED <<setupPc, setupResult, stored>>
    /\ UNCHANGED <<update_tasks, taskState, startResult>>
    /\ UNCHANGED <<authVars, apiVars, eventVars, readerVars, requestVars, lockVars>>

\* get_tracked_devices returns; the platform logs an error if devices are
\* tracked already, and returns True.
PlatformReturns ==
    /\ platPc = "listening"
    /\ platPc' = "done"
    /\ UNCHANGED <<setupLoop, heard>>
    /\ UNCHANGED <<setupPc, setupResult, stored>>
    /\ UNCHANGED <<update_tasks, taskState, startResult>>
    /\ UNCHANGED <<authVars, apiVars, eventVars, readerVars, requestVars, lockVars>>

\* A serial-number loop in its cycle publishes device_added for a new device.
\* dispatch_async hands it to the listeners registered now and to no other:
\* the first one of the loop async_setup_entry created is heard by the
\* platform if its listener is registered, and lost otherwise.
LoopPublishesAdded(t) ==
    /\ t \in SerialNumberTasks
    /\ taskState[t] = "cycle"
    /\ heard' = IF t = setupLoop /\ heard = "none"
                THEN (IF platPc \in {"listening", "done"} THEN "heard" ELSE "lost")
                ELSE heard
    /\ UNCHANGED <<platPc, setupLoop>>
    /\ UNCHANGED <<setupPc, setupResult, stored>>
    /\ UNCHANGED <<update_tasks, taskState, startResult>>
    /\ UNCHANGED <<authVars, apiVars, eventVars, readerVars, requestVars, lockVars>>

\* Start-up: async_setup_entry and the platform job it adds, beside the loop
\* tasks and other start_auto_update calls.
NextStartup ==
    \/ SetupEntry /\ UNCHANGED platformVars
    \/ \E exc \in Raised : SetupLoginFails(exc) /\ UNCHANGED platformVars
    \/ StartupLoginOk
    \/ PlatformSetup
    \/ PlatformReturns
    \/ StartAutoUpdate /\ UNCHANGED setupVars
    \/ \E t \in Tasks : TaskCycleEnd(t) /\ UNCHANGED setupVars
    \/ \E t \in Tasks : TaskWake(t) /\ UNCHANGED setupVars
    \/ \E t \in Tasks : TaskEnd(t) /\ UNCHANGED setupVars
    \/ \E t \in Tasks : LoopPublishesAdded(t)

\* async_setup_entry, beside the loop tasks and other start_auto_update calls.
NextSetup ==
    \/ SetupEntry /\ UNCHANGED platformVars
    \/ \E exc \in Raised : SetupLoginFails(exc) /\ UNCHANGED platformVars
    \/ SetupLoginOk /\ UNCHANGED platformVars
    \/ StartAutoUpdate /\ UNCHANGED setupVars
    \/ \E t \in Tasks : TaskCycleEnd(t) /\ UNCHANGED setupVars
    \/ \E t \in Tasks : TaskWake(t) /\ UNCHANGED setupVars
    \/ \E t \in Tasks : TaskEnd(t) /\ UNCHANGED setupVars

\* ------------------------------------------------------------ EventSystem
\* One publish (one dispatch or dispatch_async call) is followed from its call
\* to its end; publishes share nothing but __topics, which they only read.

\* self.__topics[name], an absent key read as the empty list (add_listener
\* never stores an empty list).
MutListenersOfEveryTopic(t) == topics[1] \o topics[2]
Listeners(t) == topics[t]

RECURSIVE SumLen(_)
SumLen(n) == IF n = 0 THEN 0 ELSE Len(topics[n]) + SumLen(n - 1)

\* How many add_listener calls there have been.
Registrations == SumLen(NumTopics)

\* `except Exception` in __dispatch_to: what it catches.
MutCatchesNothing(exc) == FALSE
Catches(exc) == exc = "Exception"

Finished(ch) == \A i \in 1..Len(ch) : ch[i].st \notin {"pending", "suspended"}

\* The first stretch of the coroutine `dispatch(name, *args)`, up to
\* `await asyncio.gather(...)`: the listeners are looked up and one
\* __dispatch_to coroutine per list entry is handed to gather; with no entry
\* for the topic it returns at once.
DispatchBody(t) ==
    IF Listeners(t) = <<>>
    THEN /\ dPc' = "done"
         /\ children' = <<>>
    ELSE /\ dPc' = "gather"
         /\ children' = [i \in 1..Len(Listeners(t)) |->
                            [h |-> Listeners(t)[i], st |-> "pending", exc |-> "none"]]

\* add_listener(name, callback): the callback is appended to the topic's list.
AddListener(t, h) ==
    /\ Registrations < MaxListeners
    /\ topics' = [topics EXCEPT ![t] = Append(@, h)]
    /\ UNCHANGED <<dPc, dTopic, dArg, atCallLen, children, calls, dRaised, dHow, pubDone>>
    /\ UNCHANGED <<authVars, apiVars, taskVars, readerVars, requestVars, lockVars>>

\* dispatch_async(name, arg): create_task wraps the coroutine; nothing of its
\* body has run when dispatch_async returns.
DispatchAsync(t, a) ==
    /\ dPc = "none"
    /\ dPc' = "created"
    /\ dTopic' = t
    /\ dArg' = a
    /\ atCallLen' = Len(topics[t])
    /\ dHow' = "task"
    /\ UNCHANGED <<topics, children, calls, dRaised, pubDone>>
    /\ UNCHANGED <<authVars, apiVars, taskVars, readerVars, requestVars, lockVars>>

\* The event loop runs the task of the publish for the first time.
DispatchTaskStarts ==
    /\ dPc = "created"
    /\ DispatchBody(dTopic)
    /\ UNCHANGED <<topics, dTopic, dArg, atCallLen, calls, dRaised, dHow, pubDone>>
    /\ UNCHANGED <<authVars, apiVars, taskVars, readerVars, requestVars, lockVars>>

\* `await dispatch(name, arg)` called directly: the body starts in the caller.
Dispatch(t, a) ==
    /\ dPc = "none"
    /\ dTopic' = t
    /\ dArg' = a
    /\ atCallLen' = Len(topics[t])
    /\ DispatchBody(t)
    /\ dHow' = "await"
    /\ UNCHANGED <<topics, calls, dRaised, pubDone>>
    /\ UNCHANGED <<authVars, apiVars, taskVars, readerVars, requestVars, lockVars>>

\* __dispatch_to(f, args, kwargs) of entry i runs `await f(*args)`: the handler
\* returns (exc = "none") or raises exc.  What `except Exception` catches is
\* logged; anything else leaves __dispatch_to, and gather hands the first such
\* exception to `dispatch`, whose caller or task gets it.  gather does not
\* cancel the other entries.
DispatchTo(i, exc) ==
    /\ dPc \in {"gather", "done"}
    /\ i \in 1..Len(children)
    /\ children[i].st = "pending"
    /\ LET st == IF exc = "none" THEN "returned"
                 ELSE IF Catches(exc) THEN "logged" ELSE "escaped"
           ch == [children EXCEPT ![i] = [h |-> @.h, st |-> st, exc |-> exc]]
       IN /\ children' = ch
          /\ calls' = Append(calls, [h |-> children[i].h, arg |-> dArg])
          /\ dPc' = IF st = "escaped" \/ Finished(ch) THEN "done" ELSE dPc
          /\ dRaised' = (dRaised \/ (st = "escaped" /\ dPc = "gather"))
    /\ UNCHANGED <<topics, dTopic, dArg, atCallLen, dHow, pubDone>>
    /\ UNCHANGED <<authVars, apiVars, taskVars, readerVars, requestVars, lockVars>>

\* `await f(*args)` of entry i: the handler is called and suspends inside.
DispatchToSuspends(i) ==
    /\ dPc \in {"gather", "done"}
    /\ i \in 1..Len(children)
    /\ children[i].st = "pending"
    /\ children' = [children EXCEPT ![i] = [h |-> @.h, st |-> "suspended", exc |-> "none"]]
    /\ calls' = Append(calls, [h |-> children[i].h, arg |-> dArg])
    /\ UNCHANGED <<topics, dPc, dTopic, dArg, atCallLen, dRaised, dHow, pubDone>>
    /\ UNCHANGED <<authVars, apiVars, taskVars, readerVars, requestVars, lockVars>>

\* A suspended handler is resumed and returns or raises; a handler need never
\* be resumed.
HandlerEnds(i, exc) ==
    /\ i \in 1..Len(children)
    /\ children[i].st = "suspended"
    /\ LET st == IF exc = "none" THEN "returned"
                 ELSE IF Catches(exc) THEN "logged" ELSE "escaped"
           ch == [children EXCEPT ![i] = [h |-> @.h, st |-> st, exc |-> exc]]
       IN /\ children' = ch
          /\ dPc' = IF st = "escaped" \/ Finished(ch) THEN "done" ELSE dPc
          /\ dRaised' = (dRaised \/ (st = "escaped" /\ dPc = "gather"))
    /\ UNCHANGED <<topics, dTopic, dArg, atCallLen, calls, dHow, pubDone>>
    /\ UNCHANGED <<authVars, apiVars, taskVars, readerVars, requestVars, lockVars>>

\* When the publisher can go on with its own work: at once after
\* dispatch_async, which only creates the task; after `await dispatch(...)`
\* once dispatch has ended.
MutPublisherAwaits == dPc = "done"
PublisherFree == dHow = "task" \/ (dHow = "await" /\ dPc = "done")

\* The publisher runs on to the end of its own work: the serial-number cycle
\* that called dispatch_async finishes its loops and the loop goes to sleep.
PublisherGoesOn ==
    /\ ~pubDone
    /\ PublisherFree
    /\ pubDone' = TRUE
    /\ UNCHANGED <<topics, dPc, dTopic, dArg, atCallLen, children, calls, dRaised, dHow>>
    /\ UNCHANGED <<authVars, apiVars, taskVars, readerVars, requestVars, lockVars>>

\* EventSystem.__init__
InitEvents ==
    /\ topics = [t \in Topics |-> <<>>]
    /\ dPc = "none"
    /\ dTopic = 0
    /\ dArg = 0
    /\ atCallLen = 0
    /\ children = <<>>
    /\ calls = <<>>
    /\ dRaised = FALSE
    /\ dHow = "none"
    /\ pubDone = FALSE

NextEvents ==
    \/ \E t \in Topics, h \in Handlers : AddListener(t, h)
    \/ \E t \in Topics, a \in Args : DispatchAsync(t, a)
    \/ DispatchTaskStarts
    \/ \E t \in Topics, a \in Args : Dispatch(t, a)
    \/ \E i \in 1..MaxListeners, exc \in Raised : DispatchTo(i, exc)

\* A publish (of argument 1 on topic 1) whose handlers may suspend, and its
\* publisher.
HandlerCalled(i) == DispatchToSuspends(i) \/ \E exc \in Raised : DispatchTo(i, exc)

NextPublish ==
    \/ \E t \in Topics, h \in Handlers : AddListener(t, h)
    \/ DispatchAsync(1, 1)
    \/ DispatchTaskStarts
    \/ Dispatch(1, 1)
    \/ \E i \in 1..MaxListeners, exc \in Raised : DispatchTo(i, exc)
    \/ \E i \in 1..MaxListeners : DispatchToSuspends(i)
    \/ \E i \in 1..MaxListeners, exc \in Raised : HandlerEnds(i, exc)
    \/ PublisherGoesOn

\* ------------------------------------------------------------ _request: the response

\* What a response can be: its status line and its body, which is no JSON at
\* all, a JSON value that is no object, or a JSON object with some of the
\* keys of the API's error shape.
Statuses == {200, 204, 400, 500}
Reasons == {"reason A", "reason B"}
ErrorKeys == {"error", "error_description", "error_code"}
Values == {"v1", "v2"}
Bodies ==
    {[kind |-> "not_json", payload |-> <<>>], [kind |-> "not_object", payload |-> <<>>]}
    \cup {[kind |-> "object", payload |-> f] :
             f \in UNION {[K -> Values] : K \in SUBSET ErrorKeys}}
Responses == [status : Statuses, reason : Reasons, body : Bodies]
NoResponse == [status |-> 0, reason |-> "", body |-> [kind |-> "none", payload |-> <<>>]]
NoOutcome == [kind |-> "none"]

\* HTTPError.from_response(resp, payload)
HTTPErrorFromResponse(resp) ==
    [kind |-> "HTTPError", response_payload |-> resp.body.payload,
     status |-> resp.status, reason |-> resp.reason]

\* APIError.from_response(resp, payload): payload["error"] and
\* payload["error_code"] raise KeyError on an object without the key, which
\* is caught, and TypeError on a JSON value that is no object, which is not.
APIErrorFromResponse(resp) ==
    IF resp.body.kind = "not_object" THEN [kind |-> "TypeError"]
    ELSE IF {"error", "error_code"} \subseteq DOMAIN resp.body.payload
    THEN [kind |-> "APIError",
          name |-> resp.body.payload["error"],
          description |-> IF "error_description" \in DOMAIN resp.body.payload
                          THEN resp.body.payload["error_description"]
                          ELSE "no description",
          code |-> resp.body.payload["error_code"],
          http_error |-> HTTPErrorFromResponse(resp)]
    ELSE HTTPErrorFromResponse(resp)

\* The end of _request: `data = await resp.json()` comes first and raises on
\* a body that is no JSON; then a status other than 200 raises what
\* APIError.from_response returns; else data is returned.
RequestOutcome(resp) ==
    IF resp.body.kind = "not_json" THEN [kind |-> "ContentTypeError"]
    ELSE IF resp.status # 200 THEN APIErrorFromResponse(resp)
    ELSE [kind |-> "return", data |-> resp.body.payload]

\* _request is called: it awaits get_access_token first.
RequestStart ==
    /\ rqPc = "idle"
    /\ rqPc' = "auth"
    /\ rqSends' = 0
    /\ rqResponse' = NoResponse
    /\ rqOutcome' = NoOutcome
    /\ UNCHANGED <<authVars, apiVars, taskVars, eventVars, readerVars, lockVars>>

\* get_access_token returns (ok): the request is sent; or it raises and
\* _request raises with it.
RequestToken(ok) ==
    /\ rqPc = "auth"
    /\ rqPc' = IF ok THEN "sent" ELSE "done"
    /\ rqSends' = IF ok THEN 1 ELSE 0
    /\ rqOutcome' = IF ok THEN NoOutcome ELSE [kind |-> "APIError(auth)"]
    /\ UNCHANGED rqResponse
    /\ UNCHANGED <<authVars, apiVars, taskVars, eventVars, readerVars, lockVars>>

\* The response arrives and _request returns or raises.
RequestResponse(resp) ==
    /\ rqPc = "sent"
    /\ rqResponse' = resp
    /\ rqPc' = "done"
    /\ rqOutcome' = RequestOutcome(resp)
    /\ UNCHANGED rqSends
    /\ UNCHANGED <<authVars, apiVars, taskVars, eventVars, readerVars, lockVars>>

\* The caller has its result and calls _request again some time.
RequestOver ==
    /\ rqPc = "done"
    /\ rqPc' = "idle"
    /\ UNCHANGED <<rqSends, rqResponse, rqOutcome>>
    /\ UNCHANGED <<authVars, apiVars, taskVars, eventVars, readerVars, lockVars>>

InitErrors ==
    /\ rqPc = "idle"
    /\ rqSends = 0
    /\ rqResponse = NoResponse
    /\ rqOutcome = NoOutcome

NextErrors ==
    \/ RequestStart
    \/ \E ok \in BOOLEAN : RequestToken(ok)
    \/ \E resp \in Responses : RequestResponse(resp)
    \/ RequestOver

\* ------------------------------------------------------------ the two locks
\* What a task does between the locks: get_state for a serial number that is
\* not tracked holds __states_lock across DeviceState.get, whose _request
\* awaits get_access_token and then the response; every other _request
\* (get_serial_numbers, update) runs with no registry lock; force_renew_token
\* takes the token lock only.  The renewal requests go out with session.post
\* and touch no registry.

LockOps == {"get_state", "request", "force"}

\* __states_lock after task t has left `async with self.__states_lock`.
MutRegistryLockKept(t) == lkReg
RegAfter(t) == IF lkReg = t THEN 0 ELSE lkReg

\* Task t inside `async with self._lock`: _maybe_renew_token returns at once
\* with a fresh credential and the API request goes out; else, and always in
\* force_renew_token, the renewal request goes out with the lock held.
UnderTokenLock(t, o) ==
    IF o # "force" /\ lkFresh
    THEN /\ lkPc' = [lkPc EXCEPT ![t] = "http"]
         /\ lkTok' = 0
    ELSE /\ lkPc' = [lkPc EXCEPT ![t] = "auth"]
         /\ lkTok' = t

\* Task t reaches `async with self._lock` of the AuthManager.
TokenEnter(t, o) ==
    IF lkTok = 0 /\ lkTokQ = <<>>
    THEN /\ UnderTokenLock(t, o)
         /\ UNCHANGED lkTokQ
    ELSE /\ lkPc' = [lkPc EXCEPT ![t] = "tokwait"]
         /\ lkTokQ' = Append(lkTokQ, t)
         /\ UNCHANGED lkTok

\* Task t starts get_state, a _request or force_renew_token.
LkStart(t, o) ==
    /\ lkPc[t] = "idle"
    /\ lkOp' = [lkOp EXCEPT ![t] = o]
    /\ IF o = "get_state"
       THEN IF lkReg = 0 /\ lkRegQ = <<>>
            THEN /\ lkReg' = t
                 /\ TokenEnter(t, o)
                 /\ UNCHANGED lkRegQ
            ELSE /\ lkPc' = [lkPc EXCEPT ![t] = "regwait"]
                 /\ lkRegQ' = Append(lkRegQ, t)
                 /\ UNCHANGED <<lkReg, lkTok, lkTokQ>>
       ELSE /\ TokenEnter(t, o)
            /\ UNCHANGED <<lkReg, lkRegQ>>
    /\ UNCHANGED lkFresh
    /\ UNCHANGED <<authVars, apiVars, taskVars, eventVars, readerVars, requestVars>>

\* The first waiter gets __states_lock and goes on to DeviceState.get.
LkRegAcquire(t) ==
    /\ lkPc[t] = "regwait"
    /\ lkReg = 0
    /\ lkRegQ # <<>> /\ Head(lkRegQ) = t
    /\ lkReg' = t
    /\ lkRegQ' = Tail(lkRegQ)
    /\ TokenEnter(t, lkOp[t])
    /\ UNCHANGED <<lkOp, lkFresh>>
    /\ UNCHANGED <<authVars, apiVars, taskVars, eventVars, readerVars, requestVars>>

\* The first waiter gets the token lock.
LkTokAcquire(t) ==
    /\ lkPc[t] = "tokwait"
    /\ lkTok = 0
    /\ lkTokQ # <<>> /\ Head(lkTokQ) = t
    /\ lkTokQ' = Tail(lkTokQ)
    /\ UnderTokenLock(t, lkOp[t])
    /\ UNCHANGED <<lkOp, lkReg, lkRegQ, lkFresh>>
    /\ UNCHANGED <<authVars, apiVars, taskVars, eventVars, readerVars, requestVars>>

\* The renewal request of task t is answered: the token lock is released; on
\* success the credential is cached (valid: not expired at once) and a
\* _request goes on to its API request; on failure, and at the end of
\* force_renew_token, the task's call is over and get_state leaves its lock.
LkAuthDone(t, ok, valid) ==
    /\ lkPc[t] = "auth"
    /\ lkTok' = 0
    /\ lkFresh' = IF ok THEN valid ELSE lkFresh
    /\ IF ok /\ lkOp[t] # "force"
       THEN /\ lkPc' = [lkPc EXCEPT ![t] = "http"]
            /\ UNCHANGED lkReg
       ELSE /\ lkPc' = [lkPc EXCEPT ![t] = "idle"]
            /\ lkReg' = RegAfter(t)
    /\ UNCHANGED <<lkOp, lkRegQ, lkTokQ>>
    /\ UNCHANGED <<authVars, apiVars, taskVars, eventVars, readerVars, requestVars>>

\* The API request of task t is answered: _request returns or raises, and
\* get_state leaves `async with self.__states_lock`.
LkHttpDone(t) ==
    /\ lkPc[t] = "http"
    /\ lkPc' = [lkPc EXCEPT ![t] = "idle"]
    /\ lkReg' = RegAfter(t)
    /\ UNCHANGED <<lkOp, lkRegQ, lkTok, lkTokQ, lkFresh>>
    /\ UNCHANGED <<authVars, apiVars, taskVars, eventVars, readerVars, requestVars>>

\* The cached credential expires.
LkExpire ==
    /\ lkFresh
    /\ lkFresh' = FALSE
    /\ UNCHANGED <<lkPc, lkOp, lkReg, lkRegQ, lkTok, lkTokQ>>
    /\ UNCHANGED <<authVars, apiVars, taskVars, eventVars, readerVars, requestVars>>

InitLocks ==
    /\ lkPc = [t \in Callers |-> "idle"]
    /\ lkOp = [t \in Callers |-> "none"]
    /\ lkReg = 0
    /\ lkRegQ = <<>>
    /\ lkTok = 0
    /\ lkTokQ = <<>>
    /\ lkFresh = FALSE

LkAnswered(t) == \E ok, valid \in BOOLEAN : LkAuthDone(t, ok, valid)

NextLocks ==
    \/ \E t \in Callers, o \in LockOps : LkStart(t, o)
    \/ \E t \in Callers : LkRegAcquire(t)
    \/ \E t \in Callers : LkTokAcquire(t)
    \/ \E t \in Callers, ok \in BOOLEAN, valid \in BOOLEAN : LkAuthDone(t, ok, valid)
    \/ \E t \in Callers : LkHttpDone(t)
    \/ LkExpire

Init ==
    /\ InitAuth /\ InitHeaders /\ InitApi /\ InitTasks /\ InitEvents /\ InitReader
    /\ InitErrors /\ InitSetup /\ InitLocks /\ InitPlatform

SpecAuth == Init /\ [][NextAuth]_vars

SpecApi == Init /\ [][NextApi]_vars

\* asyncio.sleep returns after interval_s for as long as the event loop runs.
SpecApiLive ==
    /\ Init /\ [][NextApi]_vars
    /\ WF_vars(SnWake /\ UNCHANGED queueVars)
    /\ WF_vars(StWake /\ UNCHANGED queueVars)

SpecTasks == Init /\ [][NextTasks]_vars

SpecEvents == Init /\ [][NextEvents]_vars

SpecReader == Init /\ [][NextReader]_vars

SpecErrors == Init /\ [][NextErrors]_vars

SpecRequest == Init /\ [][NextRequest]_vars

SpecRenewals == Init /\ [][NextRenewals]_vars

SpecRemoval == Init /\ [][NextRemoval]_vars

\* Every network call returns, and the event loop wakes the first waiter of a
\* lock that is free.
SpecLocksLive ==
    /\ Init /\ [][NextLocks]_vars
    /\ \A t \in Callers :
          /\ WF_vars(LkRegAcquire(t))
          /\ WF_vars(LkTokAcquire(t))
          /\ WF_vars(LkAnswered(t))
          /\ WF_vars(LkHttpDone(t))

SpecMutation == Init /\ [][NextMutation]_vars

SpecAnnounce == Init /\ [][NextAnnounce]_vars

SpecSetup == Init /\ [][NextSetup]_vars

SpecStartup == Init /\ [][NextStartup]_vars

\* The event loop runs every task that is ready: the dispatch task, each
\* __dispatch_to task of gather, the publisher.  Nothing makes a suspended
\* handler ready.
SpecPublishLive ==
    /\ Init /\ [][NextPublish]_vars
    /\ WF_vars(DispatchTaskStarts)
    /\ \A i \in 1..MaxListeners : WF_vars(HandlerCalled(i))
    /\ WF_vars(PublisherGoesOn)


\* ------------------------------------------------------------ properties of AuthManager

\* The calls of the batch that sent a login/refresh request.
Issuers == {m \in batch : req[m].kind # "none"}

\* Every call of the batch is over.
BatchDone == batch # {} /\ \A m \in batch : pc[m] \in {"returned", "raised"}

\* One request for the whole batch, and every call returned its token.
OneRequestServesAll ==
    /\ Cardinality(Issuers) = 1
    /\ \A m \in batch : pc[m] = "returned" /\ \A i \in Issuers : result[m] = i

StartsGet(c) == pc[c] = "idle" /\ pc'[c] # "idle" /\ op'[c] = "get"

\* C2: the first get_access_token call after login_details was replaced never
\* answers from the cache, and the request it sends is a full login with the
\* new identity.
C2_FreshLoginAfterSetter ==
    [][\A c \in Callers :
         (fresh /\ StartsGet(c)) =>
            /\ pc'[c] # "returned"
            /\ pc'[c] = "request" =>
                  (req'[c].kind = "login" /\ req'[c].ident = login)]_vars

\* Task c's get_access_token call returns at this step.
ReturnsGet(c) == pc[c] # "returned" /\ pc'[c] = "returned" /\ op'[c] = "get"

\* C3 as stated: what get_access_token returns is the access token of the
\* cached credential, and that credential is not expired at that moment.
C3_ReturnsUnexpired ==
    [][\A c \in Callers :
         ReturnsGet(c) =>
            /\ token' # NoToken
            /\ result'[c] = token'.access
            /\ now' < token'.expires_at]_vars

\* C3 amended: ... and that credential is not expired at that moment, unless
\* this very call has just been issued it with expires_in = 0.
C3_ReturnsCached ==
    [][\A c \in Callers :
         ReturnsGet(c) =>
            /\ token' # NoToken
            /\ result'[c] = token'.access
            /\ \/ now' < token'.expires_at
               \/ pc[c] = "request" /\ token'.access = c /\ token'.expires_in = 0]_vars

C3_Witness ==
    \E c \in Callers :
        /\ pc[c] = "returned" /\ op[c] = "get" /\ req[c].kind = "none"
        /\ token # NoToken /\ result[c] = token.access /\ ~Expired(token)

\* C4: when the login or refresh request fails, the renewal raises to its
\* caller and the cached credential is what it was: absent stays absent, a
\* stale credential stays the same stale credential.
C4_FailureKeepsCredential ==
    [][\A c \in Callers :
         (pc[c] = "request" /\ pc'[c] # "request" /\ pc'[c] # "returned") =>
            (pc'[c] = "raised" /\ token' = token)]_vars

C4_Witness ==
    \E c \in Callers :
        /\ pc[c] = "raised" /\ req[c].kind = "refresh"
        /\ token = req[c].tok /\ Expired(token)

\* C5: a credential issued with expires_in = 0 is expired from the moment it
\* is constructed: a get_access_token call that finds it cached sends a
\* renewal request instead of returning it.
C5_ZeroTtlRenewed ==
    [][/\ (token' # NoToken /\ token'.expires_in = 0) => now' >= token'.expires_at
       /\ \A c \in Callers :
            (/\ op'[c] = "get" /\ pc[c] \in {"idle", "waiting"}
             /\ pc'[c] \in {"request", "returned"}
             /\ token # NoToken /\ token.expires_in = 0) =>
                (pc'[c] = "request" /\ req'[c].kind # "none")]_vars

C5_Witness ==
    \E c \in Callers :
        /\ op[c] = "get" /\ pc[c] = "request"
        /\ token # NoToken /\ token.expires_in = 0 /\ token.access # c

\* properties of AirthingsAPI

\* C6 as stated: within one reconciliation cycle every device_removed is
\* published before any device_added, so in the events of a cycle no
\* device_added comes before a device_removed.
C6_RemovalsBeforeAdditions ==
    \A i, j \in 1..Len(emitted) :
        (emitted[i].kind = "device_added" /\ emitted[j].kind = "device_removed") => j < i

\* C7 as stated: whenever no reconciliation cycle is in progress the keys of
\* the registry are the serial numbers of the last cycle that completed
\* successfully, whatever cycles have failed since.
C7_RegistryIsLastGoodFetch ==
    snPc = "sleep" => states = lastGood

ListFetchFails == snPc = "list" /\ snPc' = "sleep" /\ snLast' = "list_failed"
ListFetchReturns == snPc = "list" /\ snPc' = "device"
ListFetchReturnsNoNew == snPc = "list" /\ snPc' = "sleep" /\ snLast' = "ok"
Removed(evs) == {evs[i].sn : i \in {k \in 1..Len(evs) : evs[k].kind = "device_removed"}}

\* C8: a cycle whose device-list fetch raises changes neither the registry nor
\* the events published so far; the registry stays as it is until the next
\* device list arrives, and that cycle's added and removed sets are computed
\* against it.
C8_ListFailureChangesNothing ==
    [][/\ ListFetchFails => (states' = states /\ emitted' = emitted)
       /\ snPc \in {"sleep", "list"} /\ snPc' \in {"sleep", "list"} /\ snLast' # "ok"
             => states' = states
       /\ ListFetchReturns =>
             /\ sns_before' = states
             /\ added_sns' \cup {snCur'} = sns_now' \ states
             /\ states' = states
       /\ ListFetchReturnsNoNew =>
             /\ lastGood' \subseteq states
             /\ states' = lastGood'
             /\ Removed(emitted') = states \ lastGood']_vars

C8_Witness ==
    /\ snLast = "list_failed"
    /\ snPc = "device"
    /\ states # {}
    /\ sns_before = states
    /\ lastGood # states

SnFailed == snLast \in {"list_failed", "device_failed"} /\ snPc \notin {"list", "device"}
StFailed == stLast = "failed" /\ stPc # "update"

\* C9: a failed cycle never ends its loop: after a failed cycle of the
\* serial-number loop the device list is eventually fetched again, and after a
\* failed cycle of the state-update loop another cycle eventually starts,
\* unless the task is cancelled.
C9_FailedCycleRetried ==
    /\ SnFailed ~> (snPc \in {"list", "cancelled"})
    /\ StFailed ~> (stPc \in {"update", "cancelled"} \/ stLast = "ok")

C9_Witness ==
    /\ snLast = "device_failed"
    /\ snPc = "list"
    /\ stLast = "failed"
    /\ stPc = "update"

\* C10 as stated: at most one task of each polling loop is live at any time.
C10_OneInstancePerLoop ==
    /\ Cardinality({t \in SerialNumberTasks : Live(t)}) <= 1
    /\ Cardinality({t \in StateTasks : Live(t)}) <= 1

UpdateReturns ==
    /\ stPc = "update"
    /\ \/ stPc' = "update" /\ stCur' # stCur
       \/ stPc' = "sleep" /\ stLast' = "ok"

\* C12 as stated: every tracked device the state-update cycle refreshes gets
\* exactly one `updated` event on its own channel, whatever the sample holds.
C12_UpdatedOncePerDevice ==
    [][UpdateReturns => stEmitted' = Append(stEmitted, stCur)]_vars

\* properties of EventSystem

PublishOver == dPc = "done" /\ Finished(children)

Invocations(h) == Cardinality({k \in 1..Len(calls) : calls[k].h = h})
Entries(h, n) == Cardinality({k \in DOMAIN topics[dTopic] : k <= n /\ topics[dTopic][k] = h})

\* C14 as stated: a finished publish has invoked each handler registered for
\* its topic exactly once, with the published argument, and no other handler.
C14_EachHandlerOnce ==
    PublishOver =>
        /\ \A h \in Handlers :
              Invocations(h) = IF Entries(h, Len(children)) > 0 THEN 1 ELSE 0
        /\ \A k \in 1..Len(calls) : calls[k].arg = dArg

\* C14 amended: a finished publish has invoked each entry of its topic's list
\* exactly once (a callback added k times is invoked k times), with the
\* published argument, and no handler of another topic; with no listener for
\* the topic nothing is invoked and nothing is raised.
C14_EachEntryOnce ==
    /\ PublishOver =>
          /\ \A h \in Handlers : Invocations(h) = Entries(h, Len(children))
          /\ \A k \in 1..Len(calls) : calls[k].arg = dArg
    /\ (dPc = "done" /\ children = <<>>) => (calls = <<>> /\ ~dRaised)

C14_Witness ==
    /\ PublishOver
    /\ Len(calls) = 1
    /\ calls[1].arg = dArg
    /\ \E t \in Topics : t # dTopic /\ topics[t] # <<>> /\ topics[t][1] # calls[1].h

\* C15 as stated: a publish invokes no handler but the ones that were
\* registered for its topic when dispatch_async was called.
C15_HandlersFixedAtCall ==
    dPc # "none" => \A h \in Handlers : Invocations(h) <= Entries(h, atCallLen)

\* The events a step of the serial-number loop publishes.
NewEvents ==
    IF ListFetchReturns \/ ListFetchReturnsNoNew THEN emitted'
    ELSE SubSeq(emitted', Len(emitted) + 1, Len(emitted'))
RemovedNow(sn) ==
    Cardinality({k \in DOMAIN NewEvents : NewEvents[k] = Ev("removed", sn)})

\* C16: `removed` is published on a DeviceState's channel exactly once, in the
\* step that pops it from the registry and after the pop: a step publishes
\* `removed` once for each serial number it takes out of the registry and for
\* no other, and the registry it leaves has no entry for it.
C16_RemovedOnceAfterDetach ==
    [][\A sn \in Serials :
          /\ RemovedNow(sn) = IF sn \in states /\ sn \notin states' THEN 1 ELSE 0
          /\ RemovedNow(sn) > 0 => sn \notin states']_vars

C16_Witness ==
    /\ snPc = "sleep"
    /\ snLast = "ok"
    /\ \E k \in DOMAIN emitted : emitted[k].kind = "removed" /\ emitted[k].sn \notin states

\* C17 as stated: a task that reads the registry through get_state, with
\* __states_lock held, never finds it with only part of a cycle's changes
\* applied.
C17_ReaderSeesWholeCycles == ~rPartial

\* properties of _request

NonSuccess(status) == status \notin 200..299
ErrorShape(body) ==
    body.kind = "object" /\ {"error", "error_code"} \subseteq DOMAIN body.payload

\* C18 as stated: for a response with a non-success status _request has sent
\* its request once and raises an APIError with the body's name and code when
\* the body has the keys `error` and `error_code`, and otherwise an HTTPError
\* with the response's status and reason.
C18_ErrorsStructured ==
    (rqPc = "done" /\ rqResponse # NoResponse /\ NonSuccess(rqResponse.status)) =>
        /\ rqSends = 1
        /\ IF ErrorShape(rqResponse.body)
           THEN /\ rqOutcome.kind = "APIError"
                /\ rqOutcome.name = rqResponse.body.payload["error"]
                /\ rqOutcome.code = rqResponse.body.payload["error_code"]
           ELSE /\ rqOutcome.kind = "HTTPError"
                /\ rqOutcome.status = rqResponse.status
                /\ rqOutcome.reason = rqResponse.reason

\* properties of the AuthManager lock

InFlight == {c \in Callers : pc[c] = "request"}

\* C20: at most one login/refresh request is in flight per AuthManager,
\* force_renew_token and get_access_token callers counted together, and it is
\* in flight with the lock held; while it is in flight no other caller checks
\* the credential, returns or sends a request: it can only start waiting or
\* keep waiting.
C20_OneRenewalInFlight ==
    /\ [](Cardinality(InFlight) <= 1 /\ (InFlight # {} => locked))
    /\ [][\A c \in Callers : \A d \in InFlight \ {c} :
            pc[c] \in {"idle", "waiting"} => pc'[c] \in {pc[c], "waiting"}]_vars

\* A force_renew_token and a get_access_token call overlap: one has its
\* request in flight, the other waits for the lock.
C20_Witness ==
    \E c, d \in Callers :
        /\ pc[c] = "request" /\ pc[d] = "waiting"
        /\ {op[c], op[d]} = {"force", "get"}

\* properties of the Authorization header

Sent(c) == pc[c] \in {"sent", "done"}

\* C19: a request that has gone out carries the value its own
\* get_access_token call returned, which is a token; and if the credential was
\* absent or expired when _request started, it carries the token of a
\* credential obtained since, not the one cached at the start.
C19_HeaderFromOwnCall ==
    \A c \in Callers : Sent(c) =>
        /\ authz[c] = result[c]
        /\ authz[c] # NoToken.access
        /\ owed[c] => authz[c] # seen[c]

\* A request has gone out although an expired credential was cached when
\* _request started.
C19_Witness ==
    \E c \in Callers :
        Sent(c) /\ owed[c] /\ seen[c] # NoToken.access /\ authz[c] # NoToken.access

\* properties of dispatch_async

Called(ch) == \A i \in 1..Len(ch) : ch[i].st # "pending"

\* C21: dispatch_async returns to the publisher with no handler run, and the
\* publisher is free to go on; whether or not a handler of the publish stays
\* suspended for ever, every handler of the publish gets called and the
\* publisher reaches the end of its own work.
C21_FireAndForget ==
    /\ [][dPc' = "created" => (calls' = <<>> /\ children' = <<>> /\ PublisherFree')]_vars
    /\ (dHow = "task") ~>
          (pubDone /\ dPc \in {"gather", "done"} /\ Called(children))

\* One handler of a dispatch_async publish is still suspended; another one has
\* been called after it and has returned, and the publisher has gone on.
C21_Witness ==
    /\ dHow = "task" /\ pubDone
    /\ \E i, j \in 1..Len(children) :
          /\ i < j
          /\ children[i].st = "suspended"
          /\ children[j].st = "returned"

\* properties of force_renew_token

\* force_renew_token of task c enters the body of `async with self._lock`.
ForceSends(c) == pc[c] \in {"idle", "waiting"} /\ pc'[c] = "request" /\ op'[c] = "force"

\* C22 (custom_components AuthManager): a force_renew_token call sends one
\* request, whether or not the cached credential is still valid: a login with
\* the current login details when nothing is cached, else a refresh with the
\* cached credential; it sends no second one; and when the request succeeds
\* the cached credential is the newly issued one.
C22_ForceRenewsOnce ==
    [][variant = "login_refresh" => \A c \in Callers :
        /\ ForceSends(c) =>
              /\ req[c] = NoRequest
              /\ req'[c] = IF token = NoToken
                           THEN [kind |-> "login", ident |-> login, tok |-> NoToken]
                           ELSE [kind |-> "refresh", ident |-> token.ident, tok |-> token]
        /\ (op[c] = "force" /\ pc[c] = "request" /\ pc'[c] # "request") =>
              /\ req'[c] = req[c]
              /\ pc'[c] = "returned" => (token'.access = c /\ token'.expires_at >= now)
              /\ pc'[c] = "raised" => token' = token
        /\ (op[c] = "force" /\ pc[c] \in {"returned", "raised"}) =>
              (pc'[c] = pc[c] /\ req'[c] = req[c])]_vars

\* A force_renew_token call has refreshed a credential that was still valid
\* when the call sent its request.
C22_Witness ==
    /\ variant = "login_refresh"
    /\ \E c \in Callers :
          /\ op[c] = "force" /\ pc[c] = "returned"
          /\ req[c].kind = "refresh"
          /\ now < req[c].tok.expires_at
          /\ token.access = c

\* properties of the removals

Place(q, ev) == {k \in DOMAIN q : q[k] = ev}

\* C23: a step that takes a device out of the registry publishes
\* device_removed for it and, next after it, `removed`; whenever one of the two
\* dispatches is queued or has started, the registry has no entry for the
\* device; and the `removed` dispatch only starts after the device_removed
\* dispatch of the same device has started.
C23_RemovalOrder ==
    /\ [][\A sn \in Serials : (sn \in states /\ sn \notin states') =>
            \E k \in DOMAIN ready' :
                /\ ready'[k] = Ev("device_removed", sn)
                /\ k + 1 \in DOMAIN ready'
                /\ ready'[k + 1] = Ev("removed", sn)]_vars
    /\ [](\A sn \in Serials :
            /\ (Place(ready \o started, Ev("device_removed", sn)) # {}
                    \/ Place(ready \o started, Ev("removed", sn)) # {}) => sn \notin states
            /\ \A k \in Place(started, Ev("removed", sn)) :
                  \E j \in Place(started, Ev("device_removed", sn)) : j < k)

\* Two devices were removed in one step and the four dispatches have started.
C23_Witness ==
    /\ ready = <<>>
    /\ Len(started) = 4
    /\ \A k \in DOMAIN started : started[k].kind \in {"device_removed", "removed"}

\* properties of async_setup_entry

\* C24 as stated: async_setup_entry ends in one of two ways (a cancellation
\* during the login aside): it returns False with no API object stored, or it
\* returns True with the API object stored; and the step in which the login
\* succeeds leaves both polling loops running.
C24_SetupFollowsLogin ==
    /\ [](setupPc = "done" =>
            \/ setupResult = "False" /\ ~stored
            \/ setupResult = "True" /\ stored
            \/ setupResult = "BaseException" /\ ~stored)
    /\ [][(setupPc = "login" /\ stored') => AutoUpdateRunning']_vars

\* properties of the two loops together

\* C25 as stated: `updated` is never published on a DeviceState after its
\* `removed`: an update that publishes `updated` does so for a device that is
\* still in the registry, not for one the serial-number loop has removed (and
\* published `removed` for) while the update's fetch was in flight.
C25_NoUpdateAfterRemoved ==
    [][(stPc = "update" /\ stEmitted' # stEmitted) => stCur \in states]_vars

\* C26 as stated: every entry of the registry has had device_added published
\* by the time it leaves the registry (when device_removed is published for
\* it), whoever created it.
C26_AddedBeforeRemoved ==
    [][\A sn \in Serials : (sn \in states /\ sn \notin states') => sn \in announced]_vars

\* properties of get_state

C28_CycleVisitsAllKept ==
    [][(stPc = "update" /\ stPc' # "update") => (kept \cap states') \subseteq stSeen]_vars

\* properties of a failed renewal

Queued == {waiters[k] : k \in DOMAIN waiters}

\* C30: the token lock is held only while a renewal request is in flight, so
\* that a renewal that raises leaves it free; the callers queued on it stay
\* queued, in their order, and the first of them is the next to run its
\* check-and-renew; and a get_access_token call whose own request succeeds,
\* also after failures of others, returns the token of the new credential.
C30_FailureReleasesLock ==
    /\ [](locked => InFlight # {})
    /\ [](\A c \in Callers : pc[c] = "waiting" <=> c \in Queued)
    /\ [][\A c \in Callers : (pc[c] = "request" /\ pc'[c] = "raised") =>
            (~locked' /\ waiters' = waiters)]_vars
    /\ [][\A c \in Callers :
            (op[c] = "get" /\ pc[c] = "request" /\ pc'[c] = "returned") =>
                (result'[c] = c /\ token'.access = c)]_vars

\* A renewal has raised, the lock is free, and a get_access_token call made
\* after that call has sent its own request and returned its token.
C30_Witness ==
    \E c, d \in Callers :
        /\ c < d
        /\ pc[c] = "raised"
        /\ op[d] = "get" /\ pc[d] = "returned" /\ result[d] = d
        /\ ~locked

\* properties of the two locks

\* C29: no task waits for __states_lock while it holds the token lock (the
\* token lock is held only across a renewal request), and every get_state,
\* _request and force_renew_token call that has begun comes to its end.
C29_NoDeadlock ==
    /\ [](\A t \in Callers : lkTok = t => lkPc[t] = "auth")
    /\ \A t \in Callers : (lkPc[t] # "idle") ~> (lkPc[t] = "idle")

\* A task waits for the token lock while it holds the registry lock, and
\* another task waits for the registry lock.
C29_Witness ==
    \E t, u \in Callers :
        /\ lkReg = t /\ lkPc[t] = "tokwait"
        /\ lkPc[u] = "regwait"

\* properties of what get_token_details returns

\* C31: when get_token_details returns normally (pc becomes "returned" for a
\* get_access_token call, from the fast path or from the answered renewal),
\* a credential is cached and the call returns that credential's access
\* token; no returned get_access_token call holds the value that stands for
\* a missing credential.  The setter runs between any two steps.
C31_NeverReturnsAbsent ==
    /\ [](\A c \in Callers :
            (op[c] = "get" /\ pc[c] = "returned") => result[c] # NoToken.access)
    /\ [][\A c \in Callers :
            (op'[c] = "get" /\ pc[c] # "returned" /\ pc'[c] = "returned") =>
                (token' # NoToken /\ result'[c] = token'.access)]_vars

\* The setter ran while a get_access_token call's login request was in
\* flight (the request carries the login details since replaced, and its
\* response stored the credential after the setter had cleared it), and the
\* call returned its token.
C31_Witness ==
    \E c \in Callers :
        /\ op[c] = "get" /\ pc[c] = "returned"
        /\ req[c].kind = "login" /\ req[c].ident # login
        /\ token.access = c /\ result[c] = c

\* properties of the choice between login and refresh

\* A renewal of task c starts: _force_renew_token sends its request.
Sends(c) == pc[c] \in {"idle", "waiting"} /\ pc'[c] = "request"

\* C32 (custom_components AuthManager): a renewal that starts with nothing
\* cached sends a login with the current login details, and no renewal that
\* starts with a credential cached sends a login: it sends a refresh with
\* that credential, expired or not; a failed refresh leaves the credential
\* cached, so the renewals after it are refreshes with it again; only the
\* setter takes the cached credential away.
C32_RefreshWhileCached ==
    [][variant = "login_refresh" =>
        /\ \A c \in Callers :
              /\ Sends(c) =>
                    /\ req'[c].kind = "login" <=> token = NoToken
                    /\ token = NoToken => req'[c].ident = login
                    /\ token # NoToken =>
                          req'[c] = [kind |-> "refresh", ident |-> token.ident,
                                     tok |-> token]
              /\ (pc[c] = "request" /\ pc'[c] = "raised") => token' = token
        /\ (token # NoToken /\ token' = NoToken) => login' # login]_vars

\* Two refresh requests with the same expired credential have failed, one
\* after the other, and the credential is still cached.
C32_Witness ==
    /\ variant = "login_refresh"
    /\ token # NoToken /\ Expired(token)
    /\ \E c, d \in Callers :
          /\ c # d
          /\ pc[c] = "raised" /\ req[c] = [kind |-> "refresh", ident |-> token.ident, tok |-> token]
          /\ pc[d] = "raised" /\ req[d] = req[c]

\* properties of start-up

====
